---- MODULE Spec2Model ----
(***************************************************************************)
(* Model of @hatsy/http-header-value: the trust-chain walk of              *)
(* HttpForwardRep.by, the header dispatch of HttpForwardRep.parse and the  *)
(* conditional quoting of hthvQuote.                                       *)
(*                                                                         *)
(* A forwarding report and an item's parameter map are functions from      *)
(* field names (strings) to values.  A JavaScript `undefined` or missing   *)
(* name is the empty string where the code only tests truthiness.          *)
(* The trust policy is an input: every call of the checker returns a mask  *)
(* chosen from 0..3, and the call is logged in `calls`.  Within one walk   *)
(* every (record, distance) pair is asked once, so the log is a table of   *)
(* an arbitrary pure policy restricted to the pairs the walk asks about.   *)
(***************************************************************************)
EXTENDS Integers, Sequences, FiniteSets, TLC

VARIABLES
    op,        \* the operation under way: "by", "parse" or "quote"
    pc,        \* position inside the operation
    items,     \* by: the `items` argument (index 1 is the most distant hop)
    defaults,  \* by/parse: the `defaults` argument
    headers,   \* parse: the `headers` argument
    trust,     \* parse: the `trust` options ([xForwarded])
    calls,     \* log of trust checker calls: <<[index, mask], ...>>
    walk,      \* by: the local variables of the walk
    result,    \* by/parse: the returned report
    string,    \* quote: the argument, a sequence of code points
    scan,      \* quote: the local variables of the scan
    out        \* quote: the returned string

vars == <<op, pc, items, defaults, headers, trust, calls, walk, result, string, scan, out>>

----------------------------------------------------------------------------
(* Bounds *)

MaxHops == 3

MaxLen == 3

----------------------------------------------------------------------------
(* HttpForwardTrustMask *)

TrustCurrent == 1

TrustPrevious == 2

FullTrust == TrustCurrent + TrustPrevious

Masks == 0 .. FullTrust

\* bit `b` (1 or 2) of the two-bit mask m
HasBit(m, b) == (m \div b) % 2 = 1

\* m & b for a single-bit b
BitAnd(m, b) == IF HasBit(m, b) THEN b ELSE 0

\* a | b on two-bit masks
BitOr(a, b) ==
    (IF HasBit(a, 1) \/ HasBit(b, 1) THEN 1 ELSE 0)
  + (IF HasBit(a, 2) \/ HasBit(b, 2) THEN 2 ELSE 0)

\* m >>> 1
ShiftRight1(m) == m \div 2

----------------------------------------------------------------------------
(* Header items *)

RequiredFields == {"by", "for", "host", "proto"}

EmptyMap == [k \in {} |-> ""]

\* the name whose assignment on a plain object goes to the prototype setter
ProtoName == "__proto__"

\* result[k] = v on the plain object of line 153, v a string: the name
\* __proto__ reaches the setter of Object.prototype, which ignores a string
\* and adds no field
Put(r, k, v) ==
    IF k = ProtoName THEN r
    ELSE [x \in DOMAIN r \cup {k} |-> IF x = k THEN v ELSE r[x]]

\* hthvItem({ n, v, p, pl })
hthvItem(n, v, p, pl) == [n |-> n, v |-> v, p |-> p, pl |-> pl]

\* a parameter item: hthvItem({ n, v })
Param(n, v) == hthvItem(n, v, EmptyMap, <<>>)

\* p.name?.v || prev
OrElse(p, name, prev) ==
    IF name \in DOMAIN p /\ p[name].v # "" THEN p[name].v ELSE prev

----------------------------------------------------------------------------
(* HttpForwardRep.by *)

\* lines 115-131: the state before the loop; m is trustChecker(trusted, 0)
WalkInit(d, len, m) ==
    LET lastHost == Param("host", d.host)
        lastProto == Param("proto", d.proto)
    IN  [ trustedBy |-> d.by,
          trustedFor |-> d.for,
          trustedHost |-> d.host,
          trustedProto |-> d.proto,
          trusted |-> hthvItem("for", d.for,
                               [host |-> lastHost, proto |-> lastProto],
                               <<lastHost, lastProto>>),
          trustedFlag |-> m,
          index |-> 0,
          i |-> len - 1,
          broke |-> FALSE ]

\* the mutants of Combined
CombinedNoInherit(w, m) == m

CombinedInheritForever(w, m) ==
    LET carried == BitAnd(w.trustedFlag, TrustPrevious)
    IN  BitOr(m, BitOr(carried, ShiftRight1(carried)))

\* line 138: trustChecker(item, ++index) | ((trustedFlag & TrustPrevious) >>> 1),
\* m being the checker's answer
Combined(w, m) == BitOr(m, ShiftRight1(BitAnd(w.trustedFlag, TrustPrevious)))

\* lines 140-142: break
Break(w, flag) ==
    [w EXCEPT !.trustedFlag = flag, !.index = w.index + 1, !.broke = TRUE]

\* lines 144-150: the record is trusted
Accept(w, item, flag) ==
    [w EXCEPT !.trustedFlag = flag,
              !.index = w.index + 1,
              !.trustedBy = OrElse(item.p, "by", w.trustedBy),
              !.trustedFor = OrElse(item.p, "for", w.trustedFor),
              !.trustedHost = OrElse(item.p, "host", w.trustedHost),
              !.trustedProto = OrElse(item.p, "proto", w.trustedProto),
              !.trusted = item,
              !.i = w.i - 1]

\* the mutants of WalkStep
WalkStepNoBreak(w, item, m) == Accept(w, item, Combined(w, m))

WalkStepAssignFirst(w, item, m) ==
    LET flag == Combined(w, m)
    IN  IF BitAnd(flag, TrustCurrent) = 0
        THEN [Break(w, flag) EXCEPT !.trusted = item]
        ELSE Accept(w, item, flag)

\* lines 133-151: one iteration of the loop on items[i]; m is the answer of
\* trustChecker(item, ++index)
WalkStep(w, item, m) ==
    LET flag == Combined(w, m)
    IN  IF BitAnd(flag, TrustCurrent) = 0
        THEN Break(w, flag)
        ELSE Accept(w, item, flag)

\* lines 155-159: the named parameters of the list, in list order
RECURSIVE PutParams(_, _)
PutParams(r, pl) ==
    IF pl = <<>> THEN r
    ELSE PutParams(IF Head(pl).n # "" THEN Put(r, Head(pl).n, Head(pl).v) ELSE r,
                   Tail(pl))

\* lines 160-162
PutOwn(r, item) == IF item.n # "" THEN Put(r, item.n, item.v) ELSE r

\* lines 165-168
Fill(r, w) ==
    Put(Put(Put(Put(r, "by", w.trustedBy), "for", w.trustedFor),
            "host", w.trustedHost), "proto", w.trustedProto)

\* the mutants of Flatten
FlattenNoBy(w) ==
    LET r == PutOwn(PutParams(EmptyMap, w.trusted.pl), w.trusted)
    IN  Put(Put(Put(r, "for", w.trustedFor), "host", w.trustedHost),
            "proto", w.trustedProto)

FlattenOwnLast(w) == PutOwn(Fill(PutParams(EmptyMap, w.trusted.pl), w), w.trusted)

\* lines 153-170: the report of the walk
Flatten(w) == Fill(PutOwn(PutParams(EmptyMap, w.trusted.pl), w.trusted), w)

\* the answer of a logged policy for hop distance d
Answer(table, d) == IF d + 1 <= Len(table) THEN table[d + 1] ELSE 0

RECURSIVE Walk(_, _, _)
Walk(w, list, table) ==
    IF w.i < 0 \/ w.broke THEN w
    ELSE Walk(WalkStep(w, list[w.i + 1], Answer(table, w.index + 1)), list, table)

\* lines 108-171: by(items, defaults, trust), the checker answering
\* table[d + 1] at hop distance d
By(list, d, table) == Flatten(Walk(WalkInit(d, Len(list), Answer(table, 0)), list, table))

----------------------------------------------------------------------------
(* Inputs of HttpForwardRep.by *)

DefaultsA == [by |-> "10.0.0.1", for |-> "10.0.0.2", host |-> "example.com", proto |-> "http"]

DefaultsB == [by |-> "", for |-> "unknown", host |-> "10.0.0.1:80", proto |-> "https"]

DefaultsSet == {DefaultsA, DefaultsB}

\* for=203.0.113.5;host=api.example.com;proto=https
HopFor ==
    LET h == Param("host", "api.example.com")
        s == Param("proto", "https")
    IN  hthvItem("for", "203.0.113.5", [host |-> h, proto |-> s], <<h, s>>)

\* by=proxy1;for=198.51.100.9;secret=s1
HopBy ==
    LET f == Param("for", "198.51.100.9")
        x == Param("secret", "s1")
    IN  hthvItem("by", "proxy1", [for |-> f, secret |-> x], <<f, x>>)

\* an unnamed item with an unnamed parameter and an empty `for`
HopBare ==
    LET u == Param("", "flag")
        f == Param("for", "")
        h == Param("host", "h2.example.com")
    IN  hthvItem("", "tok", [for |-> f, host |-> h], <<u, f, h>>)

\* ext=x2;by=proxy2;proto=""
HopExt ==
    LET b == Param("by", "proxy2")
        s == Param("proto", "")
    IN  hthvItem("ext", "x2", [by |-> b, proto |-> s], <<b, s>>)

\* __proto__=own;__proto__=x;host=h4.example.com
HopProto ==
    LET x == Param(ProtoName, "x")
        h == Param("host", "h4.example.com")
    IN  hthvItem(ProtoName, "own", [host |-> h], <<x, h>>)

ItemKinds == {HopFor, HopBy, HopBare, HopExt, HopProto}

RECURSIVE ListsUpTo(_)
ListsUpTo(n) ==
    IF n = 0 THEN {<<>>}
    ELSE LET shorter == ListsUpTo(n - 1)
         IN  shorter \cup {Append(l, x) : l \in {s \in shorter : Len(s) = n - 1}, x \in ItemKinds}

----------------------------------------------------------------------------
(* HttpForwardRep.parse *)

\* A header value is undefined, a string or an iterable of strings.
Undefined == [kind |-> "undefined", values |-> <<>>]

Single(text) == [kind |-> "string", values |-> <<text>>]

Iterable(texts) == [kind |-> "iterable", values |-> texts]

\* JavaScript truthiness of a header value: an empty string is falsy, any
\* iterable is truthy
Truthy(h) == h.kind = "iterable" \/ (h.kind = "string" /\ h.values[1] # "")

TextFor == "for=203.0.113.5;host=api.example.com;proto=https"

TextByExt == "ext=x2;by=proxy2;proto=\"\", by=proxy1;for=198.51.100.9;secret=s1"

\* hthvParse(text): the items of a Forwarded header value
hthvParse(text) ==
    CASE text = TextFor -> <<HopFor>>
      [] text = TextByExt -> <<HopExt, HopBy>>
      [] OTHER -> <<>>

\* the comma-separated values of one header string, trimmed
SplitTrivial(text) ==
    CASE text = "" -> <<>>
      [] text = "192.0.2.1, 198.51.100.9" -> <<"192.0.2.1", "198.51.100.9">>
      [] text = "https,http" -> <<"https", "http">>
      [] OTHER -> <<text>>

RECURSIVE SplitAll(_)
SplitAll(texts) ==
    IF texts = <<>> THEN <<>> ELSE SplitTrivial(Head(texts)) \o SplitAll(Tail(texts))

\* hthvParseTrivial(value)
hthvParseTrivial(h) == SplitAll(h.values)

\* hthvParseFirstTrivial(value); undefined is the empty string
hthvParseFirstTrivial(h) ==
    LET all == hthvParseTrivial(h) IN IF all = <<>> THEN "" ELSE all[1]

\* lines 196-199: items.push(...hthvParse(fwd)) for each value
RECURSIVE ParseAll(_)
ParseAll(texts) ==
    IF texts = <<>> THEN <<>> ELSE hthvParse(Head(texts)) \o ParseAll(Tail(texts))

\* lines 193-200: the items of the Forwarded header, its values parsed one
\* by one and concatenated in order
ForwardedItems(forwarded) == ParseAll(forwarded.values)

\* lines 215-250
hthvXForwardedItems(h) ==
    IF ~Truthy(h.xff) THEN <<>>
    ELSE LET forwardedFor == hthvParseTrivial(h.xff)
             forwardedHost == hthvParseFirstTrivial(h.xfh)
             forwardedProto == hthvParseFirstTrivial(h.xfp)
             host == Param("host", forwardedHost)
             proto == Param("proto", forwardedProto)
             p == [n \in (IF forwardedHost # "" THEN {"host"} ELSE {})
                         \cup (IF forwardedProto # "" THEN {"proto"} ELSE {})
                     |-> IF n = "host" THEN host ELSE proto]
             pl == (IF forwardedHost # "" THEN <<host>> ELSE <<>>)
                       \o (IF forwardedProto # "" THEN <<proto>> ELSE <<>>)
         IN  [k \in 1 .. Len(forwardedFor) |-> hthvItem("for", forwardedFor[k], p, pl)]

\* the mutants of ParseSource
ParseSourceLegacyFirst(h, t) ==
    IF Truthy(h.xff) /\ t.xForwarded # "false" THEN "x-forwarded"
    ELSE IF Truthy(h.forwarded) THEN "forwarded"
    ELSE IF t.xForwarded = "false" THEN "defaults"
    ELSE "x-forwarded"

\* lines 192-205: where the report comes from
ParseSource(h, t) ==
    IF Truthy(h.forwarded) THEN "forwarded"
    ELSE IF t.xForwarded = "false" THEN "defaults"
    ELSE "x-forwarded"

\* lines 190-205: the items handed to by()
ParseItems(h, t) ==
    IF ParseSource(h, t) = "forwarded" THEN ForwardedItems(h.forwarded)
    ELSE hthvXForwardedItems(h)

\* lines 182-208: parse(headers, defaults, trust), the checker answering
\* table[d + 1] at hop distance d
Parse(h, d, t, table) ==
    IF ParseSource(h, t) = "defaults" THEN d
    ELSE By(ParseItems(h, t), d, table)

----------------------------------------------------------------------------
(* hthvQuote; a string is a sequence of code points *)

Nul == 0

Space == 32

DQuote == 34

Backslash == 92

Del == 127

\* the delimiter table of delimiters.impl: the delimiters of RFC 7230,
\* "(),/:;<=>?@[\]{}
delimiters == {34, 40, 41, 44, 47, 58, 59, 60, 61, 62, 63, 64, 91, 92, 93, 123, 125}

\* `escaped` is undefined until the first escapable character
NoEscaped == [defined |-> FALSE, s |-> <<>>]

\* JavaScript truthiness of `escaped`
TruthyStr(e) == e.defined /\ e.s # <<>>

\* lines 21-22: the state before the scan
ScanInit == [i |-> 0, escaped |-> NoEscaped, quote |-> FALSE]

\* lines 26-38: one iteration of the scan on str[i]
ScanStep(q, str) ==
    LET c == str[q.i + 1]
    IN  IF (c >= Nul /\ c <= Space) \/ c \in delimiters \/ c = Del
        THEN [ i |-> q.i + 1,
               escaped |->
                   IF c = Backslash \/ c = DQuote
                   THEN [defined |-> TRUE,
                         s |-> (IF ~TruthyStr(q.escaped)
                                THEN SubSeq(str, 1, q.i)
                                ELSE q.escaped.s) \o <<Backslash, c>>]
                   ELSE q.escaped,
               quote |-> TRUE ]
        ELSE [ i |-> q.i + 1,
               escaped |-> IF TruthyStr(q.escaped)
                           THEN [q.escaped EXCEPT !.s = @ \o <<c>>]
                           ELSE q.escaped,
               quote |-> q.quote ]

\* line 41
ScanResult(q, str) ==
    IF q.quote
    THEN <<DQuote>> \o (IF q.escaped.defined THEN q.escaped.s ELSE str) \o <<DQuote>>
    ELSE str

NoHeaders == [forwarded |-> Undefined, xff |-> Undefined, xfh |-> Undefined, xfp |-> Undefined]

NoWalk == WalkInit(DefaultsA, 0, 0)

NoScan == ScanInit

----------------------------------------------------------------------------
(* The walk of HttpForwardRep.by, step by step *)

\* the masks the policy answered, by hop distance
Table == [k \in 1 .. Len(calls) |-> calls[k].mask]

\* a direct call by(items, defaults, trust)
InitBy ==
    /\ op = "by"
    /\ pc = "start"
    /\ items \in ListsUpTo(MaxHops)
    /\ defaults \in DefaultsSet
    /\ headers = NoHeaders
    /\ trust = [xForwarded |-> "undefined"]
    /\ calls = <<>>
    /\ walk = NoWalk
    /\ result = EmptyMap
    /\ string = <<>>
    /\ scan = NoScan
    /\ out = <<>>

\* lines 115-131
Start ==
    /\ pc = "start"
    /\ \E m \in Masks :
        /\ walk' = WalkInit(defaults, Len(items), m)
        /\ calls' = Append(calls, [index |-> 0, mask |-> m])
    /\ pc' = "loop"
    /\ UNCHANGED <<op, items, defaults, headers, trust, result, string, scan, out>>

\* lines 133-151: one iteration
Hop ==
    /\ pc = "loop"
    /\ walk.i >= 0
    /\ ~walk.broke
    /\ \E m \in Masks :
        /\ walk' = WalkStep(walk, items[walk.i + 1], m)
        /\ calls' = Append(calls, [index |-> walk.index + 1, mask |-> m])
    /\ UNCHANGED <<op, pc, items, defaults, headers, trust, result, string, scan, out>>

\* lines 153-170, after the loop ended by exhaustion or by break
Return ==
    /\ pc = "loop"
    /\ (walk.i < 0 \/ walk.broke)
    /\ result' = Flatten(walk)
    /\ pc' = "done"
    /\ UNCHANGED <<op, items, defaults, headers, trust, calls, walk, string, scan, out>>

Next == Start \/ Hop \/ Return

Spec == InitBy /\ [][Next]_vars

----------------------------------------------------------------------------
(* HttpForwardRep.parse, step by step *)

ForwardedValues ==
    {Undefined, Single(""), Single(TextFor), Single(TextByExt),
     Iterable(<<>>), Iterable(<<TextByExt, TextFor>>)}

XForValues ==
    {Undefined, Single(""), Single("198.51.100.9"), Single("192.0.2.1, 198.51.100.9"),
     Iterable(<<"192.0.2.1", "198.51.100.9">>)}

XHostValues == {Undefined, Single("legacy.example.com")}

XProtoValues == {Undefined, Single("https"), Iterable(<<"https,http">>)}

\* a call parse(headers, defaults, trust)
InitParse ==
    /\ op = "parse"
    /\ pc = "dispatch"
    /\ items = <<>>
    /\ defaults \in DefaultsSet
    /\ headers \in [forwarded : ForwardedValues, xff : XForValues,
                    xfh : XHostValues, xfp : XProtoValues]
    /\ trust \in [xForwarded : {"undefined", "true", "false"}]
    /\ calls = <<>>
    /\ walk = NoWalk
    /\ result = EmptyMap
    /\ string = <<>>
    /\ scan = NoScan
    /\ out = <<>>

\* lines 189-207: choose the items and call by(), or (line 202) return a
\* copy of defaults
Dispatch ==
    /\ pc = "dispatch"
    /\ IF ParseSource(headers, trust) = "defaults"
       THEN /\ result' = defaults
            /\ pc' = "done"
            /\ UNCHANGED items
       ELSE /\ items' = ParseItems(headers, trust)
            /\ pc' = "start"
            /\ UNCHANGED result
    /\ UNCHANGED <<op, defaults, headers, trust, calls, walk, string, scan, out>>

NextParse == Dispatch \/ Start \/ Hop \/ Return

SpecParse == InitParse /\ [][NextParse]_vars

----------------------------------------------------------------------------
(* hthvQuote, step by step *)

\* a, b, backslash, double quote, space, comma, DEL
Chars == {97, 98, 92, 34, 32, 44, 127}

RECURSIVE StringsUpTo(_)
StringsUpTo(n) ==
    IF n = 0 THEN {<<>>}
    ELSE LET shorter == StringsUpTo(n - 1)
         IN  shorter \cup {Append(t, c) : t \in {u \in shorter : Len(u) = n - 1}, c \in Chars}

\* a call hthvQuote(string)
InitQuote ==
    /\ op = "quote"
    /\ pc = "start"
    /\ items = <<>>
    /\ defaults = DefaultsA
    /\ headers = NoHeaders
    /\ trust = [xForwarded |-> "undefined"]
    /\ calls = <<>>
    /\ walk = NoWalk
    /\ result = EmptyMap
    /\ string \in StringsUpTo(MaxLen)
    /\ scan = NoScan
    /\ out = <<>>

\* lines 17-19
QuoteEmpty ==
    /\ pc = "start"
    /\ string = <<>>
    /\ out' = <<DQuote, DQuote>>
    /\ pc' = "done"
    /\ UNCHANGED <<op, items, defaults, headers, trust, calls, walk, result, string, scan>>

\* lines 21-22
QuoteBegin ==
    /\ pc = "start"
    /\ string # <<>>
    /\ scan' = ScanInit
    /\ pc' = "scan"
    /\ UNCHANGED <<op, items, defaults, headers, trust, calls, walk, result, string, out>>

\* lines 24-39: one iteration
QuoteScan ==
    /\ pc = "scan"
    /\ scan.i < Len(string)
    /\ scan' = ScanStep(scan, string)
    /\ UNCHANGED <<op, pc, items, defaults, headers, trust, calls, walk, result, string, out>>

\* line 41
QuoteReturn ==
    /\ pc = "scan"
    /\ scan.i >= Len(string)
    /\ out' = ScanResult(scan, string)
    /\ pc' = "done"
    /\ UNCHANGED <<op, items, defaults, headers, trust, calls, walk, result, string, scan>>

NextQuote == QuoteEmpty \/ QuoteBegin \/ QuoteScan \/ QuoteReturn

SpecQuote == InitQuote /\ [][NextQuote]_vars

----------------------------------------------------------------------------
(* Vocabulary of the claims about HttpForwardRep.by *)

Done == pc = "done"

\* the number of hops the walk trusted
TrustedCount == IF walk.broke THEN walk.index - 1 ELSE walk.index

\* the item at hop distance d >= 1
HopAt(d) == items[Len(items) - d + 1]

\* the k nearest hops of a list
Nearest(list, k) == SubSeq(list, Len(list) - k + 1, Len(list))

\* the record gives a non-empty value for field f
Supplies(item, f) == f \in DOMAIN item.p /\ item.p[f].v # ""

\* the names a record writes into the report: its own name and those of its
\* named parameters, except __proto__, which a plain object does not take
NamesOf(item) ==
    ({item.pl[k].n : k \in {j \in 1 .. Len(item.pl) : item.pl[j].n # ""}}
        \cup (IF item.n # "" THEN {item.n} ELSE {})) \ {ProtoName}

\* the report r carries the record's fields: its names next to the four
\* required ones, its own name/value and named parameters outside the four,
\* and the required fields the record supplies
ReflectsHop(r, item) ==
    /\ DOMAIN r = NamesOf(item) \cup RequiredFields
    /\ item.n # "" /\ item.n \notin RequiredFields \cup {ProtoName} => r[item.n] = item.v
    /\ \A k \in 1 .. Len(item.pl) :
          /\ item.pl[k].n # ""
          /\ item.pl[k].n \notin RequiredFields \cup {item.n, ProtoName}
          /\ \A j \in (k + 1) .. Len(item.pl) : item.pl[j].n # item.pl[k].n
          => r[item.pl[k].n] = item.pl[k].v
    /\ \A f \in RequiredFields : Supplies(item, f) => r[f] = item.p[f].v

----------------------------------------------------------------------------
(* C1 *)

\* C1 as claimed: whenever the policy answers 0 for the nearest hop, the walk
\* stops at that hop and the report is exactly defaults.
C1_Original ==
    Done /\ Len(items) >= 1 /\ calls[2].mask = 0
        => walk.broke /\ walk.index = 1 /\ result = defaults

\* C1 (amended): when the policy answers 0 for the nearest hop and its answer
\* for the synthetic defaults record (distance 0) lacks TrustPrevious, the
\* walk stops at the nearest hop and the report is exactly defaults: by, for,
\* host and proto are the defaults' values and no other field is present.
C1_UntrustedNearestHop ==
    Done /\ Len(items) >= 1 /\ calls[2].mask = 0
         /\ ~HasBit(calls[1].mask, TrustPrevious)
        => /\ walk.broke
           /\ walk.index = 1
           /\ result = defaults
           /\ DOMAIN result = RequiredFields

C1_Witness ==
    /\ Done
    /\ items = <<HopFor, HopBy>>
    /\ calls[1].mask = TrustCurrent
    /\ calls[2].mask = 0
    /\ result = defaults

----------------------------------------------------------------------------
(* C2 *)

\* C2: for an empty item list the report has by, for, host and proto equal
\* to the defaults' values and exactly these four keys, whatever the policy
\* answers; the call always returns.
C2_EmptyListIsDefaults ==
    /\ Done /\ items = <<>>
        => /\ DOMAIN result = RequiredFields
           /\ \A f \in RequiredFields : result[f] = defaults[f]
    /\ items = <<>> /\ pc = "loop" => ENABLED Return

C2_Witness ==
    /\ Done
    /\ items = <<>>
    /\ defaults = DefaultsB
    /\ calls[1].mask = FullTrust
    /\ result = DefaultsB

----------------------------------------------------------------------------
(* C3 *)

\* C3 as claimed: a single hop trusted with TrustCurrent|TrustPrevious that
\* is named `for` with a non-empty value and has exactly the parameters host
\* and proto yields {by: defaults.by, for: its value, host, proto}.
C3_Original ==
    /\ Done
    /\ Len(items) = 1
    /\ calls[2].mask = FullTrust
    /\ items[1].n = "for"
    /\ items[1].v # ""
    /\ DOMAIN items[1].p = {"host", "proto"}
    /\ NamesOf(items[1]) = {"for", "host", "proto"}
    => result = [by |-> defaults.by,
                 for |-> items[1].v,
                 host |-> items[1].p["host"].v,
                 proto |-> items[1].p["proto"].v]

----------------------------------------------------------------------------
(* C4 *)

\* C4: when the hop at distance d is trusted and the policy's mask for it
\* has TrustPrevious, the hop at distance d+1 is trusted even if the policy
\* answers 0 for it; for items = [hopA, hopB] with the policy answering
\* TrustCurrent|TrustPrevious for hopB and 0 for hopA the walk does not break
\* and the report reflects hopA's fields.
C4_TrustPropagates ==
    /\ \A k \in 1 .. Len(calls) - 1 :
          calls[k].index <= TrustedCount /\ HasBit(calls[k].mask, TrustPrevious)
              => calls[k + 1].index <= TrustedCount
    /\ Done /\ Len(items) = 2 /\ calls[2].mask = FullTrust
        => /\ Len(calls) = 3
           /\ calls[3].mask = 0
                => /\ ~walk.broke
                   /\ walk.trusted = items[1]
                   /\ ReflectsHop(result, items[1])

C4_Witness ==
    /\ Done
    /\ items = <<HopExt, HopFor>>
    /\ calls[1].mask = 0
    /\ calls[2].mask = FullTrust
    /\ calls[3].mask = 0
    /\ result["ext"] = "x2"
    /\ result["by"] = "proxy2"

----------------------------------------------------------------------------
(* C5 *)

\* C5: when the walk breaks at the hop of distance k+1, the report equals
\* the report of the list reduced to its k nearest hops under the same
\* policy; the untrusted hop and the hops farther out do not influence it.
C5_TruncationInvariance ==
    Done /\ walk.broke
        => result = By(Nearest(items, walk.index - 1), defaults, Table)

C5_Witness ==
    /\ Done
    /\ walk.broke
    /\ walk.index = 2
    /\ items = <<HopExt, HopBy, HopFor>>
    /\ result["for"] = "10.0.0.2"
    /\ result["host"] = "api.example.com"

----------------------------------------------------------------------------
(* C6 *)

\* C6: the synthetic defaults record at hop distance 0 is fully trusted by
\* construction: the mask that seeds the walk is TrustCurrent|TrustPrevious
\* for every policy and the policy is never called with hop distance 0.
C6_Original ==
    /\ \A k \in 1 .. Len(calls) : calls[k].index # 0
    /\ pc = "loop" /\ walk.index = 0 => walk.trustedFlag = FullTrust

----------------------------------------------------------------------------
(* C9 *)

\* the hop distances of the trusted hops that supply field f
Suppliers(f) == {d \in 1 .. TrustedCount : Supplies(HopAt(d), f)}

Farthest(S) == CHOOSE d \in S : \A e \in S : e <= d

\* C9: for non-empty defaults each of by, for, host and proto is present in
\* the report and equals the non-empty value given by the farthest trusted
\* hop that supplies the field, or the defaults' value when no trusted hop
\* supplies it, whatever the final trusted record's parameter list or own
\* name/value wrote under that name.
C9_RequiredFieldsAccumulate ==
    Done /\ (\A f \in RequiredFields : defaults[f] # "")
        => \A f \in RequiredFields :
              /\ f \in DOMAIN result
              /\ result[f] # ""
              /\ result[f] = IF Suppliers(f) = {}
                             THEN defaults[f]
                             ELSE HopAt(Farthest(Suppliers(f))).p[f].v

C9_Witness ==
    /\ Done
    /\ defaults = DefaultsA
    /\ items = <<HopFor, HopBy>>
    /\ TrustedCount = 2
    /\ walk.trusted = HopFor
    /\ result["for"] = "198.51.100.9"
    /\ result["by"] = "10.0.0.1"
    /\ result["host"] = "api.example.com"

----------------------------------------------------------------------------
(* C10 *)

\* C10: trust inheritance reaches exactly one hop.  The TrustPrevious bit
\* carried to the next hop is the one of the policy's own answer for the
\* current hop; with the policy answering TrustCurrent|TrustPrevious for
\* distance 1 and 0 for distances 2 and 3 the walk trusts the hops at
\* distances 1 and 2, breaks at distance 3 and reports the hop at distance 2.
C10_InheritanceOneHop ==
    /\ pc \in {"loop", "done"}
        => BitAnd(walk.trustedFlag, TrustPrevious)
              = BitAnd(calls[Len(calls)].mask, TrustPrevious)
    /\ Done /\ Len(items) >= 3 /\ calls[2].mask = FullTrust /\ calls[3].mask = 0
        => /\ Len(calls) >= 4
           /\ calls[4].mask = 0
                => /\ walk.broke
                   /\ walk.index = 3
                   /\ TrustedCount = 2
                   /\ walk.trusted = HopAt(2)
                   /\ ReflectsHop(result, HopAt(2))

C10_Witness ==
    /\ Done
    /\ items = <<HopFor, HopBy, HopBare>>
    /\ calls[1].mask = TrustPrevious
    /\ calls[2].mask = FullTrust
    /\ calls[3].mask = 0
    /\ calls[4].mask = 0
    /\ result["secret"] = "s1"

----------------------------------------------------------------------------
(* C7 *)

\* s with every backslash and double quote preceded by one extra backslash
\* and every other character kept
RECURSIVE Escaped(_)
Escaped(s) ==
    IF s = <<>> THEN <<>>
    ELSE (IF Head(s) \in {Backslash, DQuote} THEN <<Backslash, Head(s)>> ELSE <<Head(s)>>)
             \o Escaped(Tail(s))

\* C7 as claimed: hthvQuote(s) is non-empty and either equals s or is s
\* wrapped in one pair of double quotes with every backslash and double
\* quote of s preceded by one extra backslash and every other character of
\* s kept verbatim and in order.
C7_Original ==
    op = "quote" /\ Done
        => /\ out # <<>>
           /\ \/ out = string
              \/ out = <<DQuote>> \o Escaped(string) \o <<DQuote>>

----------------------------------------------------------------------------
(* C8 *)

\* the headers without the X-Forwarded-* ones
WithoutLegacy(h) == [h EXCEPT !.xff = Undefined, !.xfh = Undefined, !.xfp = Undefined]

\* C8: X-Forwarded-For, X-Forwarded-Host and X-Forwarded-Proto do not
\* influence the report of parse when a Forwarded value is present or the
\* trust options set xForwarded to false: with a Forwarded value the report
\* is by() on the items parsed from its values, concatenated in order, and
\* with no Forwarded value and xForwarded false the report is defaults
\* verbatim and the policy is not consulted.
C8_LegacyHeadersOnlyAsFallback ==
    op = "parse" /\ Done
        => /\ Truthy(headers.forwarded)
                => /\ items = ForwardedItems(headers.forwarded)
                   /\ result = By(ForwardedItems(headers.forwarded), defaults, Table)
           /\ ~Truthy(headers.forwarded) /\ trust.xForwarded = "false"
                => /\ result = defaults
                   /\ calls = <<>>
           /\ Truthy(headers.forwarded) \/ trust.xForwarded = "false"
                => result = Parse(WithoutLegacy(headers), defaults, trust, Table)

C8_Witness ==
    /\ op = "parse"
    /\ Done
    /\ headers.forwarded = Iterable(<<TextByExt, TextFor>>)
    /\ headers.xff = Single("192.0.2.1, 198.51.100.9")
    /\ headers.xfh = Single("legacy.example.com")
    /\ headers.xfp = Single("https")
    /\ trust.xForwarded = "true"
    /\ TrustedCount = 3
    /\ result["host"] = "api.example.com"
    /\ result["ext"] = "x2"

====
